---- MODULE Spec2Model ----
(***************************************************************************)
(* The tool-dispatch gateway of google-maps-mcp-cloudrun: the per-IP rate  *)
(* limiter (checkRateLimit and its sweep), the tools/list and tools/call   *)
(* request handlers, the four tool handlers and the route comparison       *)
(* helpers of index.js, over the provider adapter of google-maps.js.       *)
(*                                                                         *)
(* Node runs every handler to its first await without interruption, so a   *)
(* handler's synchronous prefix is one action; each provider reply resumes *)
(* one suspended invocation and is one more action.                        *)
(***************************************************************************)
EXTENDS Integers, Sequences, FiniteSets, Bags, TLC

\* ---------------------------------------------------------------- bounds
\* index.js:18 sets RATE_LIMIT = 50 and index.js:19 WINDOW = 3600000 ms; the
\* limiter is parametric in both, and the model runs it with a small limit
\* and a window counted in clock ticks.
RATE_LIMIT == 2
WINDOW == 2
\* The clock stops at MaxTime; no identity is charged more than MaxDenied
\* times past its limit within one window; at most MaxInflight invocations
\* are suspended on the provider at once.
MaxTime == 5
MaxDenied == 2
MaxInflight == 2
\* A comparison ranks at most MaxRoutes routes.
MaxRoutes == 3
\* A compare_routes call carries at most MaxOptions option sets.
MaxOptions == 2
\* Durations of -MaxSeconds .. MaxSeconds seconds are formatted.
MaxSeconds == 7500

\* ------------------------------------------------------------ JS values
\* An optional value is a sequence of length at most one: Undefined is a
\* missing argument, Some(v) a supplied one.
Undefined == << >>
Some(v) == << v >>
Val(o) == o[1]

\* A string is a sequence of characters.
IsSpace(c) == c = " "

RECURSIVE TrimStart(_)
TrimStart(s) ==
  IF s # << >> /\ IsSpace(Head(s)) THEN TrimStart(Tail(s)) ELSE s

RECURSIVE TrimEnd(_)
TrimEnd(s) ==
  IF s # << >> /\ IsSpace(s[Len(s)]) THEN TrimEnd(SubSeq(s, 1, Len(s) - 1)) ELSE s

\* String.prototype.trim
Trim(s) == TrimEnd(TrimStart(s))

\* x || d for an optional number x: undefined and 0 are falsy
OrDefault(o, d) == IF o = Undefined \/ Val(o) = 0 THEN d ELSE Val(o)

\* !x?.trim() for an optional string x: undefined and the empty string are falsy
BlankAfterTrim(o) == o = Undefined \/ Trim(Val(o)) = << >>

\* ------------------------------------------------------------ JS numbers
\* A JS number is an IEEE 754 double. Its 53-bit significand does not fit the
\* model's integers, so a natural number of any size is kept as its digits in
\* base Limb, least significant first, without leading zeros (0 is << >>).
Limb == 16384
LimbBits == 14

RECURSIVE BigNorm(_)
BigNorm(a) ==
  IF a = << >> THEN << >>
  ELSE IF a[Len(a)] = 0 THEN BigNorm(SubSeq(a, 1, Len(a) - 1)) ELSE a

RECURSIVE Big(_)
Big(n) == IF n = 0 THEN << >> ELSE << n % Limb >> \o Big(n \div Limb)

RECURSIVE BigToInt(_)
BigToInt(a) == IF a = << >> THEN 0 ELSE Head(a) + Limb * BigToInt(Tail(a))

BigAt(a, j) == IF j \in 1..Len(a) THEN a[j] ELSE 0

RECURSIVE BigAddC(_, _, _)
BigAddC(a, b, c) ==
  IF a = << >> /\ b = << >>
    THEN (IF c = 0 THEN << >> ELSE << c >>)
    ELSE LET x == BigAt(a, 1) + BigAt(b, 1) + c IN
         << x % Limb >>
         \o BigAddC(IF a = << >> THEN a ELSE Tail(a), IF b = << >> THEN b ELSE Tail(b),
                    x \div Limb)

BigAdd(a, b) == BigAddC(a, b, 0)

RECURSIVE BigMulSmallC(_, _, _)
BigMulSmallC(a, c, carry) ==
  IF a = << >> THEN Big(carry)
  ELSE LET x == Head(a) * c + carry IN
       << x % Limb >> \o BigMulSmallC(Tail(a), c, x \div Limb)

\* a * c for a digit c
BigMulSmall(a, c) == BigNorm(BigMulSmallC(a, c, 0))

\* a * Limb^n
BigShiftLimbs(a, n) == IF a = << >> THEN a ELSE [i \in 1..n |-> 0] \o a

RECURSIVE BigMul(_, _)
BigMul(a, b) ==
  IF a = << >> \/ b = << >> THEN << >>
  ELSE BigAdd(BigMulSmall(a, Head(b)), BigShiftLimbs(BigMul(a, Tail(b)), 1))

\* the remainder of (the digits i.. of a) divided by d, for 0 < d < Limb
RECURSIVE BigRem(_, _, _)
BigRem(a, d, i) ==
  IF i > Len(a) THEN 0 ELSE (BigRem(a, d, i + 1) * Limb + a[i]) % d

\* quotient and remainder of a divided by d, for 0 < d < Limb
BigDivSmall(a, d) ==
  [q |-> BigNorm([i \in 1..Len(a) |-> (BigRem(a, d, i + 1) * Limb + a[i]) \div d]),
   r |-> BigRem(a, d, 1)]

\* bit i of a (bit 0 the least significant), and the number of bits of a
BigBit(a, i) == (BigAt(a, i \div LimbBits + 1) \div 2^(i % LimbBits)) % 2

BigBitLen(a) ==
  IF a = << >> THEN 0
  ELSE LimbBits * (Len(a) - 1)
       + (CHOOSE k \in 1..LimbBits : 2^(k - 1) <= a[Len(a)] /\ a[Len(a)] < 2^k)

\* floor(a / 2^k) and a * 2^k
BigShiftRight(a, k) ==
  LET s == k \div LimbBits
      t == k % LimbBits
  IN BigNorm([i \in 1..Len(a) |->
                BigAt(a, i + s) \div 2^t + (BigAt(a, i + s + 1) % 2^t) * 2^(LimbBits - t)])

BigShiftLeft(a, k) ==
  BigMulSmall(BigShiftLimbs(a, k \div LimbBits), 2^(k % LimbBits))

\* A double that is not negative is [m, e], standing for m * 2^e with m of at
\* most 53 bits (2^53 itself after a carry). The costs computed here are never
\* negative, subnormal or infinite.
Precision == 53
GuardLimbs == 5

\* The double nearest to n/d * 2^e, ties to even: IEEE 754 rounding of an
\* exact result, for a natural n and 0 < d < Limb.
RoundQ(n, d, e) ==
  IF n = << >> THEN [m |-> << >>, e |-> 0]
  ELSE LET qr == BigDivSmall(BigShiftLimbs(n, GuardLimbs), d)
           k == BigBitLen(qr.q) - Precision
           half == BigBit(qr.q, k - 1) = 1
           low == qr.r # 0 \/ \E j \in 0..(k - 2) : BigBit(qr.q, j) = 1
           odd == BigBit(qr.q, k) = 1
           q == BigShiftRight(qr.q, k)
       IN [m |-> IF half /\ (low \/ odd) THEN BigAdd(q, << 1 >>) ELSE q,
           e |-> e - GuardLimbs * LimbBits + k]

\* an integer, and a decimal literal n/d (as the parser reads 0.05 or 1.99)
FromInt(n) == [m |-> Big(n), e |-> 0]
FromDecimal(n, d) == RoundQ(Big(n), d, 0)

\* x * y, x / d for an integer d, and x + y
FMul(x, y) == RoundQ(BigMul(x.m, y.m), 1, x.e + y.e)
FDivInt(x, d) == RoundQ(x.m, d, x.e)
FAdd(x, y) ==
  IF x.m = << >> THEN y
  ELSE IF y.m = << >> THEN x
  ELSE LET e == IF x.e < y.e THEN x.e ELSE y.e IN
       RoundQ(BigAdd(BigShiftLeft(x.m, x.e - e), BigShiftLeft(y.m, y.e - e)), 1, e)

\* a < b
BigLess(a, b) ==
  IF Len(a) # Len(b) THEN Len(a) < Len(b)
  ELSE \E i \in 1..Len(a) : a[i] < b[i] /\ \A j \in (i + 1)..Len(a) : a[j] = b[j]

\* x < y
FLess(x, y) ==
  LET e == IF x.e < y.e THEN x.e ELSE y.e IN
  BigLess(BigShiftLeft(x.m, x.e - e), BigShiftLeft(y.m, y.e - e))

\* Math.round(x) = floor(x + 0.5) for x >= 0
MathRound(x) ==
  IF x.e >= 0 THEN BigToInt(BigShiftLeft(x.m, x.e))
  ELSE BigToInt(BigShiftRight(x.m, -x.e)) + BigBit(x.m, -x.e - 1)

\* ------------------------------------------------------------- the state
VARIABLES
  now,            \* Date.now(), in ticks
  requestCounts,  \* the Map ip -> {count, window}; its domain is the stored keys
  inflight,       \* bag of tool invocations suspended on provider replies
  last,           \* the request that finished most recently, with its outcome
  granted,        \* per stored window, how many admits returned true (history)
  hist,           \* per ip, the admits counted by elapsed time alone (history)
  unswept,        \* requestCounts as it would be had no sweep ever run (history)
  since,          \* per ip, its admits since the stored window's start (history)
  eval            \* the latest application of a pure helper

vars == << now, requestCounts, inflight, last, granted, hist, unswept, since, eval >>

IPs == {"ip1", "ip2"}

\* ------------------------------------------------------ the rate limiter
\* requestCounts.get(ip) || { count: 0, window: now }
Entry(rc, ip, t) ==
  IF ip \in DOMAIN rc THEN rc[ip] ELSE [count |-> 0, window |-> t]

\* Bump with the increment lost, as when two callers write back the same
\* stale count.
BumpLost(e, t) ==
  IF t - e.window > WINDOW
    THEN [count |-> 1, window |-> t]
    ELSE [count |-> e.count, window |-> e.window]

\* Bump with a denied admit rolled back: the count stays where the limit
\* left it.
BumpRolledBack(e, t) ==
  IF t - e.window > WINDOW
    THEN [count |-> 1, window |-> t]
    ELSE IF e.count + 1 > RATE_LIMIT
      THEN [count |-> e.count, window |-> e.window]
      ELSE [count |-> e.count + 1, window |-> e.window]

\* Bump with the old count carried into the window it starts.
BumpCarried(e, t) ==
  IF t - e.window > WINDOW
    THEN [count |-> e.count + 1, window |-> t]
    ELSE [count |-> e.count + 1, window |-> e.window]

\* Bump charging a request twice, as when the dispatcher and the handler both
\* called checkRateLimit.
BumpTwice(e, t) ==
  IF t - e.window > WINDOW
    THEN [count |-> 2, window |-> t]
    ELSE [count |-> e.count + 2, window |-> e.window]

\* the if/else of checkRateLimit
Bump(e, t) ==
  IF t - e.window > WINDOW
    THEN [count |-> 1, window |-> t]
    ELSE [count |-> e.count + 1, window |-> e.window]

\* MapSet over one window shared by every identity.
MapSetShared(rc, ip, e) ==
  [k \in DOMAIN rc \cup {ip} |-> e]

\* requestCounts.set(ip, count)
MapSet(rc, ip, e) ==
  [k \in DOMAIN rc \cup {ip} |-> IF k = ip THEN e ELSE rc[k]]

\* return count.count <= RATE_LIMIT
WithinLimit(e) == e.count <= RATE_LIMIT

\* The model stops charging an identity that is MaxDenied past its limit.
CanCharge(ip) ==
  Bump(Entry(requestCounts, ip, now), now).count <= RATE_LIMIT + MaxDenied

\* --------------------------------------------------------------- requests
\* The catalog of index.js:63-181, and a name outside it.
ToolNames == {"calculate_route", "compare_routes", "get_live_traffic", "estimate_costs"}
UnknownName == "geocode_address"

\* estimate_costs: the defaults of index.js:452-453 and the schema's ranges
\* (index.js:164-165, 171-172); efficiency in tenths of L/100km, price in cents.
DefaultFuelEfficiency == 80
DefaultFuelPrice == 150
MinFuelEfficiency == 30
MaxFuelEfficiency == 250
MinFuelPrice == 50
MaxFuelPrice == 500

\* calculate_route: maxItems of the waypoints schema (index.js:82)
MaxWaypoints == 8

\* Argument values the callers send: a missing endpoint, one that is blank,
\* one that is empty, and one that names a place with a stray space.
EndpointValues == {Undefined, Some(<< >>), Some(<<" ">>), Some(<<" ", "A">>)}
NoVehicleOptions == [fuelEfficiency |-> Undefined, fuelPrice |-> Undefined]
VehicleOptionValues ==
  { NoVehicleOptions,
    [fuelEfficiency |-> Some(0), fuelPrice |-> Some(200)],
    [fuelEfficiency |-> Some(100), fuelPrice |-> Some(10)],
    [fuelEfficiency |-> Some(300), fuelPrice |-> Undefined],
    [fuelEfficiency |-> Some(100), fuelPrice |-> Some(200)] }
\* One option set, of compareOptions or the options of calculate_route: an
\* optional name, the avoid flags and, when the caller puts them there, keys
\* named like the query's own.
Option(name, avoidTolls, avoidHighways) ==
  [name |-> name, avoidTolls |-> avoidTolls, avoidHighways |-> avoidHighways,
   origin |-> Undefined, destination |-> Undefined, waypoints |-> Undefined]

\* options = {}
NoCallerOptions == Option(Undefined, FALSE, FALSE)

\* An option set that has the keys origin, destination and waypoints as well.
Replacing(option, origin, destination, waypoints) ==
  [option EXCEPT !.origin = origin, !.destination = destination,
                 !.waypoints = waypoints]

CompareOptionValues ==
  { << >>, << Option(Some("No tolls"), TRUE, FALSE) >> }

\* waypoints = [] and options = {} unless the request carries them.
Request(ip, method, name, origin, destination, compareOptions, vehicleOptions) ==
  [ip |-> ip, method |-> method, name |-> name, origin |-> origin,
   destination |-> destination, compareOptions |-> compareOptions,
   vehicleOptions |-> vehicleOptions,
   waypoints |-> << >>, options |-> NoCallerOptions]

\* The request with waypoints and options of its own.
Routed(req, waypoints, options) ==
  [req EXCEPT !.waypoints = waypoints, !.options = options]

ListRequests(ips) ==
  { Request(ip, "tools/list", "", Undefined, Undefined, << >>, NoVehicleOptions) : ip \in ips }

CallRequests(ips, names, endpoints, compares, vehicles) ==
  { Request(ip, "tools/call", n, o, d,
            IF n = "compare_routes" THEN c ELSE << >>,
            IF n = "estimate_costs" THEN v ELSE NoVehicleOptions) :
      ip \in ips, n \in names, o \in endpoints, d \in endpoints,
      c \in compares, v \in vehicles }

\* ----------------------------------------------------------- the provider
\* What client.directions settles with: a response carrying a route list, or
\* a rejection carrying the provider's status and, at times, an error_message.
Reply(resolved, routes, status, error_message) ==
  [resolved |-> resolved, routes |-> routes, status |-> status,
   error_message |-> error_message]

\* A route of the response with its first leg: the summary, leg.distance.value,
\* leg.duration.value and, when the provider supplies it,
\* leg.duration_in_traffic.value.
Leg(summary, distance, duration, duration_in_traffic) ==
  [summary |-> summary, distance |-> distance, duration |-> duration,
   duration_in_traffic |-> duration_in_traffic]

\* The route calculateRoute returns.
Route(summary, distance, duration, durationInTraffic) ==
  [summary |-> summary, distance |-> distance, duration |-> duration,
   durationInTraffic |-> durationInTraffic]

\* const result = {...}: durationInTraffic is
\* leg.duration_in_traffic?.value || leg.duration.value
result(leg) ==
  Route(leg.summary, leg.distance, leg.duration,
        OrDefault(leg.duration_in_traffic, leg.duration))

Routes ==
  { Leg("I-95 N", 100000, 3600, Some(3960)) }
Replies ==
  { Reply(TRUE, << r >>, "OK", Undefined) : r \in Routes }
  \cup { Reply(TRUE, << >>, "ZERO_RESULTS", Undefined),
         Reply(FALSE, << >>, "NOT_FOUND", Undefined),
         Reply(FALSE, << >>, "REQUEST_DENIED", Some("The provided API key is invalid.")) }

\* GoogleMapsService.calculateRoute after its await: the first route, or the
\* Error its catch block rethrows.
Ok(v) == [ok |-> TRUE, value |-> Some(v), error |-> ""]
Throw(kind) == [ok |-> FALSE, value |-> Undefined, error |-> kind]

\* An empty route list throws inside the try block, so the catch block gets
\* an Error without a response and rewraps its message in the last branch.
calculateRoute(reply) ==
  IF reply.resolved
    THEN IF Len(reply.routes) = 0
           THEN Throw("Route calculation failed: No route found between the specified locations")
           ELSE Ok(result(reply.routes[1]))
    ELSE CASE reply.error_message # Undefined -> Throw("Google Maps API")
           [] reply.status = "ZERO_RESULTS" -> Throw("No route found")
           [] reply.status = "NOT_FOUND" -> Throw("Locations not found")
           [] reply.status = "OVER_QUERY_LIMIT" -> Throw("Quota exceeded")
           [] reply.status = "REQUEST_DENIED" -> Throw("Request denied")
           [] OTHER -> Throw("Route calculation failed")

\* GoogleMapsService.getTrafficInfo: calculateRoute, its failure rewrapped
getTrafficInfo(reply) ==
  LET r == calculateRoute(reply) IN
  IF r.ok THEN r ELSE Throw("Traffic info retrieval failed")

\* ------------------------------------------------------ the tool handlers
\* What each handler does before its first await: it throws, or it issues the
\* provider queries it then waits for.
\* options is what calculateRoute receives besides the endpoints: whether the
\* caller asked for alternatives, and the avoid flags.
QueryOptions(alternatives, avoidTolls, avoidHighways) ==
  [alternatives |-> alternatives, avoidTolls |-> avoidTolls,
   avoidHighways |-> avoidHighways]

NoOptions == QueryOptions(FALSE, FALSE, FALSE)

Query(origin, destination, waypoints, options) ==
  [origin |-> origin, destination |-> destination, waypoints |-> waypoints,
   options |-> options]

\* { origin, destination, waypoints, ...option }: a key of the spread option
\* set replaces the key of the same name written before it.
Spread(origin, destination, waypoints, option, alternatives) ==
  Query(IF option.origin = Undefined THEN origin ELSE option.origin,
        IF option.destination = Undefined THEN destination ELSE option.destination,
        IF option.waypoints = Undefined THEN waypoints ELSE Val(option.waypoints),
        QueryOptions(alternatives, option.avoidTolls, option.avoidHighways))

\* waypoints.map(w => w.trim()).filter(w => w)
TrimmedWaypoints(waypoints) ==
  SelectSeq([i \in 1..Len(waypoints) |-> Trim(waypoints[i])], LAMBDA w : w # << >>)

\* handleCalculateRoute testing its endpoints without trimming them.
handleCalculateRouteUntrimmed(args) ==
  IF args.origin \in {Undefined, Some(<< >>)} \/ args.destination \in {Undefined, Some(<< >>)}
    THEN Throw("Origin and destination are required")
    ELSE Ok(<< Spread(Some(Trim(Val(args.origin))), Some(Trim(Val(args.destination))),
                      TrimmedWaypoints(args.waypoints), args.options, FALSE) >>)

handleCalculateRoute(args) ==
  IF BlankAfterTrim(args.origin) \/ BlankAfterTrim(args.destination)
    THEN Throw("Origin and destination are required")
    ELSE Ok(<< Spread(Some(Trim(Val(args.origin))), Some(Trim(Val(args.destination))),
                      TrimmedWaypoints(args.waypoints), args.options, FALSE) >>)

\* routePromises: the default query first, then one query per option set, in
\* the order of compareOptions.
handleCompareRoutes(args) ==
  Ok(<< Query(args.origin, args.destination, args.waypoints,
              QueryOptions(TRUE, FALSE, FALSE)) >>
     \o [i \in 1..Len(args.compareOptions) |->
           Spread(args.origin, args.destination, args.waypoints,
                  args.compareOptions[i], FALSE)])

handleGetLiveTraffic(args) ==
  Ok(<< Query(args.origin, args.destination, << >>, NoOptions) >>)

handleEstimateCosts(args) ==
  Ok(<< Query(args.origin, args.destination, << >>, NoOptions) >>)

\* Dispatch with a default case that falls through to a handler.
DispatchFallthrough(req) ==
  IF req.name \in ToolNames \ {"calculate_route"}
    THEN CASE req.name = "compare_routes" -> handleCompareRoutes(req)
           [] req.name = "get_live_traffic" -> handleGetLiveTraffic(req)
           [] req.name = "estimate_costs" -> handleEstimateCosts(req)
    ELSE handleCalculateRoute(req)

\* the switch of the tools/call handler
Dispatch(req) ==
  CASE req.name = "calculate_route" -> handleCalculateRoute(req)
    [] req.name = "compare_routes" -> handleCompareRoutes(req)
    [] req.name = "get_live_traffic" -> handleGetLiveTraffic(req)
    [] req.name = "estimate_costs" -> handleEstimateCosts(req)
    [] OTHER -> Throw("Unknown tool")


\* `Option ${index + 1}`
OptionLabel(k) == << "Option 1", "Option 2", "Option 3", "Option 4", "Option 5" >>[k]

\* routeLabels of handleCompareRoutes: 'Default Route', then per option set
\* option.name || `Option ${index + 1}` (an empty name is falsy).
routeLabels(compareOptions) ==
  << "Default Route" >>
  \o [i \in 1..Len(compareOptions) |->
        IF compareOptions[i].name = Undefined \/ Val(compareOptions[i].name) = ""
          THEN OptionLabel(i) ELSE Val(compareOptions[i].name)]

\* The options entry of the default route: the string 'default' in place of an
\* option set.
DefaultMarker == Undefined

\* routes.reduce(..., { route: routes[0], index: 0, label: labels[0] }) visits
\* every route in order; index is the 0-based position.
Pick(routes, labels, i) == [route |-> routes[i], index |-> i - 1, label |-> labels[i]]

RECURSIVE ReduceBestLastWins(_, _, _, _)
ReduceBestLastWins(routes, labels, i, best) ==
  IF i > Len(routes) THEN best
  ELSE ReduceBestLastWins(routes, labels, i + 1,
         IF routes[i].durationInTraffic <= best.route.durationInTraffic
           THEN Pick(routes, labels, i) ELSE best)

\* findBestRoute comparing with <= , so that the last of equal routes wins.
findBestRouteLastWins(routes, labels) ==
  LET fastest == ReduceBestLastWins(routes, labels, 1, Pick(routes, labels, 1)) IN
  [recommended |-> fastest,
   timeSaved |-> routes[1].durationInTraffic - fastest.route.durationInTraffic]

RECURSIVE ReduceBest(_, _, _, _)
ReduceBest(routes, labels, i, best) ==
  IF i > Len(routes) THEN best
  ELSE ReduceBest(routes, labels, i + 1,
         IF routes[i].durationInTraffic < best.route.durationInTraffic
           THEN Pick(routes, labels, i) ELSE best)

\* findBestRoute with the saving measured the wrong way round.
findBestRouteReversed(routes, labels) ==
  LET fastest == ReduceBest(routes, labels, 1, Pick(routes, labels, 1)) IN
  [recommended |-> fastest,
   timeSaved |-> fastest.route.durationInTraffic - routes[1].durationInTraffic]

findBestRoute(routes, labels) ==
  LET fastest == ReduceBest(routes, labels, 1, Pick(routes, labels, 1)) IN
  [recommended |-> fastest,
   timeSaved |-> routes[1].durationInTraffic - fastest.route.durationInTraffic]

RECURSIVE ReduceFastest(_, _, _, _)
ReduceFastest(routes, labels, i, best) ==
  IF i > Len(routes) THEN best
  ELSE ReduceFastest(routes, labels, i + 1,
         IF routes[i].durationInTraffic < best.route.durationInTraffic
           THEN Pick(routes, labels, i) ELSE best)

\* the label and the seconds findFastestRoute formats
findFastestRoute(routes, labels) ==
  LET fastest == ReduceFastest(routes, labels, 1, Pick(routes, labels, 1)) IN
  [label |-> fastest.label, seconds |-> fastest.route.durationInTraffic]

RECURSIVE ReduceShortest(_, _, _, _)
ReduceShortest(routes, labels, i, best) ==
  IF i > Len(routes) THEN best
  ELSE ReduceShortest(routes, labels, i + 1,
         IF routes[i].distance < best.route.distance
           THEN Pick(routes, labels, i) ELSE best)

\* the label and the meters findShortestRoute formats
findShortestRoute(routes, labels) ==
  LET shortest == ReduceShortest(routes, labels, 1, Pick(routes, labels, 1)) IN
  [label |-> shortest.label, meters |-> shortest.route.distance]

\* comparison.routes: routes.map((route, index) => ...)
ComparisonRoutes(compareOptions, routes) ==
  [i \in 1..Len(routes) |->
     [id |-> i - 1,
      label |-> routeLabels(compareOptions)[i],
      summary |-> routes[i].summary,
      meters |-> routes[i].distance,
      durationInTraffic |-> routes[i].durationInTraffic,
      options |-> IF i = 1 THEN DefaultMarker ELSE Some(compareOptions[i - 1])]]

\* formatDuration without its first line.
formatDurationUnguarded(seconds) ==
  LET hours == seconds \div 3600
      minutes == (seconds % 3600) \div 60
  IN IF hours > 0
       THEN ToString(hours) \o "h " \o ToString(minutes) \o "m"
       ELSE ToString(minutes) \o "m"

\* formatDuration for an integer number of seconds (!seconds holds for 0)
formatDuration(seconds) ==
  IF seconds = 0 \/ seconds < 0 THEN "0m"
  ELSE LET hours == seconds \div 3600
           minutes == (seconds % 3600) \div 60
       IN IF hours > 0
            THEN ToString(hours) \o "h " \o ToString(minutes) \o "m"
            ELSE ToString(minutes) \o "m"

\* getTrafficCondition with each threshold belonging to the milder label.
getTrafficConditionInclusive(trafficData) ==
  LET delay == trafficData.durationInTraffic - trafficData.duration IN
  IF delay < 0 THEN "light"
  ELSE IF trafficData.duration = 0 THEN "severe"
  ELSE LET ratio == FDivInt(FromInt(delay), trafficData.duration) IN
       IF ~FLess(FromDecimal(1, 10), ratio) THEN "light"
       ELSE IF ~FLess(FromDecimal(3, 10), ratio) THEN "moderate"
       ELSE IF ~FLess(FromDecimal(5, 10), ratio) THEN "heavy"
       ELSE "severe"

\* getTrafficCondition for durations that are not negative. A negative delay
\* gives a negative ratio (-Infinity over a zero duration), which is below
\* every threshold; over a zero duration any other delay gives NaN or
\* Infinity, which is below none.
getTrafficCondition(trafficData) ==
  LET delay == trafficData.durationInTraffic - trafficData.duration IN
  IF delay < 0 THEN "light"
  ELSE IF trafficData.duration = 0 THEN "severe"
  ELSE LET ratio == FDivInt(FromInt(delay), trafficData.duration) IN
       IF FLess(ratio, FromDecimal(1, 10)) THEN "light"
       ELSE IF FLess(ratio, FromDecimal(3, 10)) THEN "moderate"
       ELSE IF FLess(ratio, FromDecimal(5, 10)) THEN "heavy"
       ELSE "severe"

\* costs of handleEstimateCosts for a route of `distance` meters, the
\* efficiency given in tenths of L/100km and the price in cents per liter:
\* each amount is Math.round(x * 100) / 100, a whole number of cents, which is
\* what the model keeps of it.
Costs(distance, fuelEfficiency, fuelPrice) ==
  LET distanceKm == FDivInt(FromInt(distance), 1000)
      fuelNeeded == FMul(FDivInt(distanceKm, 100), FromDecimal(fuelEfficiency, 10))
      fuelCost == FMul(fuelNeeded, FromDecimal(fuelPrice, 100))
      tollCost == FMul(distanceKm, FromDecimal(5, 100))
  IN [fuel |-> MathRound(FMul(fuelCost, FromInt(100))),
      tolls |-> MathRound(FMul(tollCost, FromInt(100))),
      total |-> MathRound(FMul(FAdd(fuelCost, tollCost), FromInt(100)))]

\* What a handler puts in its result once its routes are in.
\* distance is the route's, which the result reports in km; fuel, tolls and
\* total are the amounts in cents; duration and durationInTraffic are the
\* seconds get_live_traffic reports next to its trafficCondition.
NoPayload ==
  [fuelEfficiency |-> 0, fuelPrice |-> 0, comparison |-> << >>,
   recommendation |-> Undefined,
   distance |-> 0, fuel |-> 0, tolls |-> 0, total |-> 0,
   duration |-> 0, durationInTraffic |-> 0, trafficCondition |-> ""]

Payload(req, routes) ==
  CASE req.name = "estimate_costs" ->
         LET fuelEfficiency ==
               OrDefault(req.vehicleOptions.fuelEfficiency, DefaultFuelEfficiency)
             fuelPrice == OrDefault(req.vehicleOptions.fuelPrice, DefaultFuelPrice)
             costs == Costs(routes[1].distance, fuelEfficiency, fuelPrice)
         IN [NoPayload EXCEPT
               !.fuelEfficiency = fuelEfficiency,
               !.fuelPrice = fuelPrice,
               !.distance = routes[1].distance,
               !.fuel = costs.fuel,
               !.tolls = costs.tolls,
               !.total = costs.total]
    [] req.name = "compare_routes" ->
         [NoPayload EXCEPT
            !.comparison = ComparisonRoutes(req.compareOptions, routes),
            !.recommendation =
              Some(findBestRoute(routes, routeLabels(req.compareOptions)))]
    [] req.name = "get_live_traffic" ->
         [NoPayload EXCEPT
            !.duration = routes[1].duration,
            !.durationInTraffic = routes[1].durationInTraffic,
            !.trafficCondition = getTrafficCondition(routes[1])]
    [] OTHER -> NoPayload

\* The tools/call handler from the admission result to its first await: it
\* throws the rate-limit Error, returns the error result of its catch block,
\* or suspends on the queries the tool handler issued.
\* handler names the tool handler that ran ("" when none did).
HandlerOf(req) == IF req.name \in ToolNames THEN req.name ELSE ""

\* Handle without the try/catch around the switch.
HandleUncaught(req, ok) ==
  IF ~ok
    THEN [outcome |-> "thrown", error |-> "Rate limit exceeded", handler |-> "",
          queries |-> << >>]
    ELSE LET h == Dispatch(req) IN
         IF ~h.ok
           THEN [outcome |-> "thrown", error |-> h.error, handler |-> HandlerOf(req),
                 queries |-> << >>]
           ELSE [outcome |-> "await", error |-> "", handler |-> HandlerOf(req),
                 queries |-> Val(h.value)]

\* Handle with the admission result ignored.
HandleUngated(req, ok) ==
  LET h == Dispatch(req) IN
  IF ~h.ok
    THEN [outcome |-> "errorResult", error |-> h.error, handler |-> HandlerOf(req),
          queries |-> << >>]
    ELSE [outcome |-> "await", error |-> "", handler |-> HandlerOf(req),
          queries |-> Val(h.value)]

Handle(req, ok) ==
  IF ~ok
    THEN [outcome |-> "thrown", error |-> "Rate limit exceeded", handler |-> "",
          queries |-> << >>]
    ELSE LET h == Dispatch(req) IN
         IF ~h.ok
           THEN [outcome |-> "errorResult", error |-> h.error, handler |-> HandlerOf(req),
                 queries |-> << >>]
           ELSE [outcome |-> "await", error |-> "", handler |-> HandlerOf(req),
                 queries |-> Val(h.value)]

\* The tools/list handler.
HandleList(req, ok) ==
  IF ~ok
    THEN [outcome |-> "thrown", error |-> "Rate limit exceeded", handler |-> "",
          queries |-> << >>]
    ELSE [outcome |-> "result", error |-> "", handler |-> "", queries |-> << >>]

\* How a request ends: "result" and "errorResult" are returned to the
\* transport (the latter with isError), "thrown" is an Error thrown to it.
\* admitted is what checkRateLimit returned for it, handler the tool handler
\* that ran for it, calls the number of provider queries issued for it.
\* arrived lists, in arrival order, the queries whose replies it consumed.
Finished(req, admitted, handler, outcome, error, calls, payload, arrived) ==
  Some([req |-> req, admitted |-> admitted, handler |-> handler,
        outcome |-> outcome, error |-> error, calls |-> calls, payload |-> payload,
        arrived |-> arrived])

\* A suspended invocation: its request and, per query issued, the route
\* fetched so far; arrived lists the queries answered so far, in arrival order.
Invocation(req, admitted, handler, queries) ==
  [req |-> req, admitted |-> admitted, handler |-> handler, queries |-> queries,
   fetched |-> [i \in 1..Len(queries) |-> Undefined], arrived |-> << >>]

\* Settle storing a value at the first free position, in arrival order.
SettleByArrival(fetched, i, v) ==
  LET k == CHOOSE j \in 1..Len(fetched) :
             fetched[j] = Undefined /\ \A h \in 1..(j - 1) : fetched[h] # Undefined
  IN [fetched EXCEPT ![k] = v]

\* Promise.all keeps the value of the i-th promise at position i of its result.
Settle(fetched, i, v) == [fetched EXCEPT ![i] = v]

\* PromiseAll fulfilled by the first value to arrive, which stands in for the
\* values still awaited.
PromiseAny(fetched, i, r) ==
  IF ~r.ok
    THEN [state |-> "rejected", error |-> r.error, values |-> fetched]
    ELSE [state |-> "fulfilled", error |-> "",
          values |-> [j \in 1..Len(fetched) |->
                        IF j = i \/ fetched[j] = Undefined THEN r.value ELSE fetched[j]]]

\* await Promise.all(routePromises) when the i-th promise settles with r: it
\* rejects with the first rejection, is fulfilled once every promise is, and
\* stays pending otherwise. (A single await is Promise.all of one promise.)
PromiseAll(fetched, i, r) ==
  IF ~r.ok
    THEN [state |-> "rejected", error |-> r.error, values |-> fetched]
    ELSE LET f == Settle(fetched, i, r.value) IN
         IF \A j \in 1..Len(f) : f[j] # Undefined
           THEN [state |-> "fulfilled", error |-> "", values |-> f]
           ELSE [state |-> "pending", error |-> "", values |-> f]

\* --------------------------------------------------------------- history
\* granted counts the admits that returned true since the stored window last
\* (re)started.
Granted(ip, e, ok) ==
  [granted EXCEPT ![ip] =
     (IF ip \notin DOMAIN requestCounts \/ e.window # requestCounts[ip].window
        THEN 0 ELSE @) + (IF ok THEN 1 ELSE 0)]

\* hist is the reference the admits are compared with: it counts an identity's
\* admits by elapsed time alone, a window ending once WINDOW has elapsed since
\* its first admit (age >= WINDOW), whatever checkRateLimit stored or the
\* sweep deleted; ok is the result checkRateLimit gave the latest admit.
Hist(ip, ok) ==
  [hist EXCEPT ![ip] =
     IF @.n = 0 \/ now - @.start >= WINDOW
       THEN [start |-> now, n |-> 1, ok |-> ok]
       ELSE [start |-> @.start, n |-> @.n + 1, ok |-> ok]]

\* since counts, from the clock alone, the admits an identity made at or after
\* the start e.window of the window checkRateLimit stores for it: one more than
\* before when the stored window is kept, and the admits of this instant when
\* the window starts now; here counts the admits of the current instant.
Since(ip, e) ==
  [since EXCEPT ![ip] =
     [n |-> (CASE ip \in DOMAIN requestCounts /\ e.window = requestCounts[ip].window -> @.n
               [] e.window = now -> @.here
               [] OTHER -> 0) + 1,
      here |-> @.here + 1]]

\* ---------------------------------------------------------------- actions
Init ==
  /\ now = 0
  /\ requestCounts = << >>
  /\ inflight = EmptyBag
  /\ last = Undefined
  /\ granted = [ip \in IPs |-> 0]
  /\ hist = [ip \in IPs |-> [start |-> 0, n |-> 0, ok |-> TRUE]]
  /\ unswept = << >>
  /\ since = [ip \in IPs |-> [n |-> 0, here |-> 0]]
  /\ eval = Undefined

\* Receive with requests handled one at a time: none is taken up while a
\* provider call is pending.
ReceiveSerialized(req) ==
  /\ inflight = EmptyBag
  /\ CanCharge(req.ip)
  /\ LET e == Bump(Entry(requestCounts, req.ip, now), now)
         ok == WithinLimit(e)
         h == IF req.method = "tools/list" THEN HandleList(req, ok) ELSE Handle(req, ok)
     IN
     /\ requestCounts' = MapSet(requestCounts, req.ip, e)
     /\ granted' = Granted(req.ip, e, ok)
     /\ hist' = Hist(req.ip, ok)
     /\ unswept' = MapSet(unswept, req.ip, Bump(Entry(unswept, req.ip, now), now))
     /\ since' = Since(req.ip, e)
     /\ IF h.outcome = "await"
          THEN /\ BagCardinality(inflight) < MaxInflight
               /\ inflight' = inflight (+) SetToBag({Invocation(req, ok, h.handler, h.queries)})
               /\ UNCHANGED last
          ELSE /\ last' = Finished(req, ok, h.handler, h.outcome, h.error, 0, NoPayload, << >>)
               /\ UNCHANGED inflight
  /\ UNCHANGED << now, eval >>

\* One request is received and handled up to its first await: the handler
\* charges the caller (checkRateLimit) and then finishes or suspends.
Receive(req) ==
  /\ CanCharge(req.ip)
  /\ LET e == Bump(Entry(requestCounts, req.ip, now), now)
         ok == WithinLimit(e)
         h == IF req.method = "tools/list" THEN HandleList(req, ok) ELSE Handle(req, ok)
     IN
     /\ requestCounts' = MapSet(requestCounts, req.ip, e)
     /\ granted' = Granted(req.ip, e, ok)
     /\ hist' = Hist(req.ip, ok)
     /\ unswept' = MapSet(unswept, req.ip, Bump(Entry(unswept, req.ip, now), now))
     /\ since' = Since(req.ip, e)
     /\ IF h.outcome = "await"
          THEN /\ BagCardinality(inflight) < MaxInflight
               /\ inflight' = inflight (+) SetToBag({Invocation(req, ok, h.handler, h.queries)})
               /\ UNCHANGED last
          ELSE /\ last' = Finished(req, ok, h.handler, h.outcome, h.error, 0, NoPayload, << >>)
               /\ UNCHANGED inflight
  /\ UNCHANGED << now, eval >>

ListTools(req) == req.method = "tools/list" /\ Receive(req)

CallTool(req) == req.method = "tools/call" /\ Receive(req)

\* One provider reply resumes the invocation that awaits it.
ProviderReply(inv, i, reply) ==
  /\ BagIn(inv, inflight)
  /\ i \in 1..Len(inv.fetched)
  /\ inv.fetched[i] = Undefined
  /\ LET r == IF inv.req.name = "get_live_traffic"
                THEN getTrafficInfo(reply) ELSE calculateRoute(reply)
         rest == inflight (-) SetToBag({inv})
         p == PromiseAll(inv.fetched, i, r)
         arrived == Append(inv.arrived, i)
     IN
     CASE p.state = "rejected" ->
            /\ last' = Finished(inv.req, inv.admitted, inv.handler, "errorResult", p.error,
                                Len(inv.fetched), NoPayload, arrived)
            /\ inflight' = rest
       [] p.state = "fulfilled" ->
            /\ last' = Finished(inv.req, inv.admitted, inv.handler, "result", "",
                                Len(inv.fetched),
                                Payload(inv.req, [j \in 1..Len(p.values) |-> Val(p.values[j])]),
                                arrived)
            /\ inflight' = rest
       [] p.state = "pending" ->
            /\ inflight' = rest (+) SetToBag({[inv EXCEPT !.fetched = p.values,
                                                          !.arrived = arrived]})
            /\ UNCHANGED last
  /\ UNCHANGED << now, requestCounts, granted, hist, unswept, since, eval >>

\* The sweep's test with the window deleted as soon as its age reaches WINDOW.
StaleAtWindow(e, t) == t - e.window >= WINDOW

\* if (now - count.window > WINDOW) of the sweep
Stale(e, t) == t - e.window > WINDOW

\* The setInterval sweep.
Sweep ==
  /\ requestCounts' =
       [ip \in {k \in DOMAIN requestCounts : ~Stale(requestCounts[k], now)}
          |-> requestCounts[ip]]
  /\ UNCHANGED << now, inflight, last, granted, hist, unswept, since, eval >>

\* Time passes.
Tick ==
  /\ now < MaxTime
  /\ now' = now + 1
  /\ since' = [ip \in IPs |-> [since[ip] EXCEPT !.here = 0]]
  /\ UNCHANGED << requestCounts, inflight, last, granted, hist, unswept, eval >>

\* Some suspended invocation gets some reply.
Replied ==
  \E inv \in BagToSet(inflight) :
    \E i \in 1..Len(inv.fetched), reply \in Replies : ProviderReply(inv, i, reply)

\* ------------------------------------------------ the gateway under load
\* Concurrent callers behind one address list the tools, plan a route (at
\* times with a blank endpoint) and ask for a tool the catalog lacks, while
\* the clock runs and the sweep fires.
ValidEndpoint == Some(<<" ", "A">>)

GatewayRequests ==
  ListRequests({"ip1"})
  \cup CallRequests({"ip1"}, {"calculate_route"}, {ValidEndpoint, Some(<<" ">>)},
                    {<< >>}, {NoVehicleOptions})
  \cup CallRequests({"ip1"}, {UnknownName}, {ValidEndpoint}, {<< >>}, {NoVehicleOptions})

Next ==
  \/ \E req \in GatewayRequests : ListTools(req)
  \/ \E req \in GatewayRequests : CallTool(req)
  \/ Replied
  \/ Sweep
  \/ Tick

Spec == Init /\ [][Next]_vars

\* ------------------------------------------------- the limiter by itself
\* Two identities list the tools while the clock runs and the sweep fires.
NextLimiter ==
  \/ \E req \in ListRequests(IPs) : ListTools(req)
  \/ Sweep
  \/ Tick

SpecLimiter == Init /\ [][NextLimiter]_vars

\* ------------------------------------------------- the tools' arguments
\* One caller, awaiting each answer before its next call, tries every tool
\* with endpoints present, blank, empty and missing, and a tool the catalog
\* lacks.
ArgsRequests ==
  CallRequests({"ip1"}, ToolNames, EndpointValues, {<< >>}, {NoVehicleOptions})
  \cup CallRequests({"ip1"}, {UnknownName}, {ValidEndpoint}, {<< >>}, {NoVehicleOptions})

NextArgs ==
  \/ \E req \in ArgsRequests : inflight = EmptyBag /\ CallTool(req)
  \/ Replied

SpecArgs == Init /\ [][NextArgs]_vars

\* One caller estimates costs with and without vehicle options.
CostsRequests ==
  CallRequests({"ip1"}, {"estimate_costs"}, {ValidEndpoint}, {<< >>}, VehicleOptionValues)

NextCosts ==
  \/ \E req \in CostsRequests : CallTool(req)
  \/ Replied

SpecCosts == Init /\ [][NextCosts]_vars

\* One caller estimates costs, with the default vehicle and with one of its
\* own, for routes from a few hundred meters to a few hundred kilometers.
EstimateRequests ==
  CallRequests({"ip1"}, {"estimate_costs"}, {ValidEndpoint}, {<< >>},
               { NoVehicleOptions, [fuelEfficiency |-> Some(55), fuelPrice |-> Some(199)] })

SurveyedDistances == {700, 2900, 12340, 100000, 250000}

SurveyedReplies ==
  { Reply(TRUE, << Leg("I-95 N", d, 3600, Some(3960)) >>, "OK", Undefined) :
      d \in SurveyedDistances }
  \cup { Reply(FALSE, << >>, "NOT_FOUND", Undefined) }

\* Some suspended invocation gets a surveyed route, or a failure.
Measured ==
  \E inv \in BagToSet(inflight) :
    \E i \in 1..Len(inv.fetched), reply \in SurveyedReplies : ProviderReply(inv, i, reply)

NextEstimate ==
  \/ \E req \in EstimateRequests : CallTool(req)
  \/ Measured

SpecEstimate == Init /\ [][NextEstimate]_vars

\* One caller asks for the traffic on routes of every congestion, the
\* thresholds and a standstill (origin and destination the same place)
\* included.
TrafficRequests ==
  CallRequests({"ip1"}, {"get_live_traffic"}, {ValidEndpoint}, {<< >>}, {NoVehicleOptions})

ObservedRoutes ==
  { Leg("I-95 N", 1000, 10, Some(t)) : t \in 8..17 }
  \cup { Leg("I-95 N", 100000, 3600, Some(t)) :
           t \in {3600, 3959, 3960, 3961, 4679, 4680, 4681, 5399, 5400, 5401} }
  \cup { Leg("I-95 N", 0, 0, Some(t)) : t \in {0, 30} }

ObservedReplies ==
  { Reply(TRUE, << r >>, "OK", Undefined) : r \in ObservedRoutes }
  \cup { Reply(FALSE, << >>, "NOT_FOUND", Undefined) }

\* Some suspended invocation gets an observed route, or a failure.
Observed ==
  \E inv \in BagToSet(inflight) :
    \E i \in 1..Len(inv.fetched), reply \in ObservedReplies : ProviderReply(inv, i, reply)

NextTraffic ==
  \/ \E req \in TrafficRequests : CallTool(req)
  \/ Observed

SpecTraffic == Init /\ [][NextTraffic]_vars

\* ------------------------------------------------- the provider adapter
\* Every way client.directions settles: with none, one or two routes, or
\* with a rejection of any status, with and without an error_message; a route
\* comes with a traffic-aware duration, zero included, or without one.
AdapterRoutes ==
  ObservedRoutes
  \cup { Leg("I-95 N", 100000, 3600, t) : t \in {Undefined, Some(0)} }

AdapterReplies ==
  { Reply(TRUE, routes, "OK", Undefined) :
      routes \in UNION { [1..n -> AdapterRoutes] : n \in 0..2 } }
  \cup { Reply(TRUE, << >>, "ZERO_RESULTS", Undefined) }
  \cup { Reply(FALSE, << >>, status, message) :
           status \in {"ZERO_RESULTS", "NOT_FOUND", "OVER_QUERY_LIMIT", "REQUEST_DENIED",
                       "UNKNOWN_ERROR"},
           message \in {Undefined, Some("The provided API key is invalid.")} }

\* calculateRoute resumed by one of them.
Adapt(reply) ==
  /\ eval' = Some([reply |-> reply, result |-> calculateRoute(reply)])
  /\ UNCHANGED << now, requestCounts, inflight, last, granted, hist, unswept, since >>

NextAdapter == \E reply \in AdapterReplies : Adapt(reply)

SpecAdapter == Init /\ [][NextAdapter]_vars

\* ------------------------------------------------- formatting durations
\* Durations are formatted one after the other, each a second longer than
\* the one before, from any first one.
Format(seconds) ==
  /\ eval' = Some([seconds |-> seconds, text |-> formatDuration(seconds)])
  /\ UNCHANGED << now, requestCounts, inflight, last, granted, hist, unswept, since >>

NextFormat ==
  \E seconds \in (-MaxSeconds)..MaxSeconds :
    /\ IF eval = Undefined THEN TRUE ELSE seconds = Val(eval).seconds + 1
    /\ Format(seconds)

SpecFormat == Init /\ [][NextFormat]_vars

\* ------------------------------------------- compare_routes fanning out
\* The road the provider routes a query over depends on what the query avoids,
\* so a route tells which query it answers.
Via(options) ==
  CASE options.avoidTolls /\ options.avoidHighways -> "Back roads"
    [] options.avoidTolls /\ ~options.avoidHighways -> "US-1 N"
    [] ~options.avoidTolls /\ options.avoidHighways -> "Main St"
    [] OTHER -> "I-95 N"

\* The seconds each road takes in traffic.
InTraffic(road) ==
  CASE road = "I-95 N" -> 3960
    [] road = "US-1 N" -> 3700
    [] road = "Main St" -> 4500
    [] OTHER -> 5000

\* What client.directions settles a given query with: its route, or a failure.
Directions(query) ==
  { Reply(TRUE, << Leg(Via(query.options), 100000, 3600,
                       Some(InTraffic(Via(query.options)))) >>, "OK", Undefined),
    Reply(FALSE, << >>, "NOT_FOUND", Undefined) }

\* Some suspended invocation gets the reply to one of its queries, in any
\* order.
Answered ==
  \E inv \in BagToSet(inflight) :
    \E i \in 1..Len(inv.fetched) :
      \E reply \in Directions(inv.queries[i]) : ProviderReply(inv, i, reply)

\* One caller, awaiting each answer before its next call, compares routes
\* under up to MaxOptions option sets, named and unnamed, equal and different.
FanoutOptionSets == { Option(Undefined, TRUE, FALSE), Option(Some("Scenic"), FALSE, TRUE) }

FanoutRequests ==
  CallRequests({"ip1"}, {"compare_routes"}, {ValidEndpoint},
               UNION { [1..n -> FanoutOptionSets] : n \in 0..MaxOptions },
               {NoVehicleOptions})

NextFanout ==
  \/ \E req \in FanoutRequests : inflight = EmptyBag /\ CallTool(req)
  \/ Answered

SpecFanout == Init /\ [][NextFanout]_vars

\* ------------------------------------------- waypoints and option sets
\* One caller, awaiting each answer before its next call, plans and compares
\* routes with waypoints (none, some padded or blank, one more than the schema
\* allows) and with option sets, some of which carry keys named origin,
\* destination and waypoints.
RouteWaypoints ==
  { << >>,
    << <<" ", "B">>, <<" ">>, <<"C", " ">>, << >>, <<"D">> >>,
    [i \in 1..(MaxWaypoints + 1) |-> <<"B">>] }

RouteOptionSets ==
  { NoCallerOptions,
    Option(Undefined, TRUE, FALSE),
    Replacing(NoCallerOptions, Some(<<"X">>), Undefined, Undefined),
    Replacing(Option(Undefined, FALSE, TRUE), Undefined, Some(<<"Y">>),
              Some(<< <<"Z">> >>)) }

RouteCompareOptions ==
  { Option(Some("Scenic"), FALSE, TRUE),
    Replacing(Option(Undefined, TRUE, FALSE), Some(<<"X">>), Undefined, Undefined) }

RouteRequests ==
  { Routed(req, w, o) :
      req \in CallRequests({"ip1"}, {"calculate_route"}, {ValidEndpoint}, {<< >>},
                           {NoVehicleOptions}),
      w \in RouteWaypoints, o \in RouteOptionSets }
  \cup { Routed(req, w, NoCallerOptions) :
           req \in CallRequests({"ip1"}, {"compare_routes"}, {ValidEndpoint},
                                UNION { [1..n -> RouteCompareOptions] : n \in 0..1 },
                                {NoVehicleOptions}),
           w \in { << >>, << <<"B">> >> } }

NextRoute ==
  \/ \E req \in RouteRequests : inflight = EmptyBag /\ CallTool(req)
  \/ Answered

SpecRoute == Init /\ [][NextRoute]_vars

\* ------------------------------------------------ slow provider calls
\* Two identities list the tools, plan routes and compare them within one
\* window; the provider answers each query when it pleases, or never.
HungRequests ==
  ListRequests(IPs)
  \cup CallRequests(IPs, {"calculate_route"}, {ValidEndpoint}, {<< >>}, {NoVehicleOptions})
  \cup CallRequests({"ip1"}, {"compare_routes"}, {ValidEndpoint},
                    {<< Option(Undefined, TRUE, FALSE) >>}, {NoVehicleOptions})

NextHung ==
  \/ \E req \in HungRequests : ListTools(req)
  \/ \E req \in HungRequests : CallTool(req)
  \/ Answered

SpecHung == Init /\ [][NextHung]_vars

\* --------------------------------------------- the comparison helpers
\* routeLabels of handleCompareRoutes when no option set carries a name
DefaultLabels(n) == [i \in 1..n |-> IF i = 1 THEN "Default Route" ELSE OptionLabel(i - 1)]

\* The routes a comparison ranks: every list of 1..MaxRoutes routes over a few
\* traffic durations and distances, equal ones included.
RankedRoutes ==
  { Route("I-95 N", d, 600, t) : d \in {5000, 7000}, t \in {600, 900, 1200} }

RouteLists == UNION { [1..n -> RankedRoutes] : n \in 1..MaxRoutes }

\* The recommendation and summary of handleCompareRoutes for already fetched
\* routes.
Compare(routes) ==
  /\ eval' = Some([routes |-> routes,
                   recommendation |-> findBestRoute(routes, DefaultLabels(Len(routes))),
                   fastestRoute |-> findFastestRoute(routes, DefaultLabels(Len(routes))),
                   shortestRoute |-> findShortestRoute(routes, DefaultLabels(Len(routes)))])
  /\ UNCHANGED << now, requestCounts, inflight, last, granted, hist, unswept, since >>

NextCompare == \E routes \in RouteLists : Compare(routes)

SpecCompare == Init /\ [][NextCompare]_vars

\* ================================================================ claims
IsCall(f) == f.req.method = "tools/call"

\* C1: counting an identity's admits by elapsed time alone (a window starts
\* with the first admit and with the first admit made once WINDOW has elapsed
\* since the window's start), the first RATE_LIMIT admits of a window return
\* true and every later one false, and the admit that opens a new window
\* returns true.
C1_AdmitByElapsedTime ==
  \A ip \in IPs : hist[ip].n > 0 => (hist[ip].ok <=> hist[ip].n <= RATE_LIMIT)

\* C2: however the requests sharing an identity interleave, at most RATE_LIMIT
\* admits return true within one stored window.
C2_GrantedWithinLimit ==
  \A ip \in IPs : granted[ip] <= RATE_LIMIT

\* Two invocations of one identity are suspended, that identity has used up
\* its limit, and a further request of it was just refused.
C2_Witness ==
  /\ last # Undefined
  /\ ~Val(last).admitted
  /\ granted[Val(last).req.ip] = RATE_LIMIT
  /\ \E inv \in BagToSet(inflight) :
       /\ inv.req.ip = Val(last).req.ip
       /\ \/ CopiesIn(inv, inflight) >= 2
          \/ \E other \in BagToSet(inflight) : other # inv /\ other.req.ip = inv.req.ip

\* C3: a tool call the limiter denied ran no tool handler and issued no
\* provider query, and no suspended invocation belongs to a denied call.
C3_DeniedRunsNothing ==
  /\ (last # Undefined /\ IsCall(Val(last)) /\ ~Val(last).admitted) =>
       /\ Val(last).handler = ""
       /\ Val(last).calls = 0
       /\ Val(last).outcome \notin {"result", "errorResult"}
  /\ \A inv \in BagToSet(inflight) : inv.admitted

C3_Witness ==
  /\ last # Undefined
  /\ IsCall(Val(last))
  /\ Val(last).req.name = "calculate_route"
  /\ ~Val(last).admitted

\* C4: a rate-limited tool call ends in a returned error result, never in an
\* Error thrown to the transport.
C4_RateLimitReturned ==
  (last # Undefined /\ IsCall(Val(last)) /\ ~Val(last).admitted) =>
    Val(last).outcome = "errorResult"

\* C6: the step that finishes a call of a tool outside the catalog leaves the
\* caller's count one higher (or at 1 in a fresh window), issues no provider
\* query and, when the call was admitted, returns the Unknown-tool error.
C6_UnknownToolCharged ==
  [][ (last' # last /\ last' # Undefined /\ IsCall(Val(last'))
         /\ Val(last').req.name \notin ToolNames) =>
        LET f == Val(last')
            ip == f.req.ip
        IN
        /\ f.calls = 0
        /\ f.handler = ""
        /\ inflight' = inflight
        /\ f.admitted => (f.outcome = "errorResult" /\ f.error = "Unknown tool")
        /\ ip \in DOMAIN requestCounts'
        /\ \/ /\ ip \in DOMAIN requestCounts
              /\ requestCounts'[ip].window = requestCounts[ip].window
              /\ requestCounts'[ip].count = requestCounts[ip].count + 1
           \/ /\ requestCounts'[ip].window = now
              /\ requestCounts'[ip].count = 1
    ]_vars

\* An admitted call of an unknown tool came back as an error result though a
\* request before it had already been counted.
C6_Witness ==
  /\ last # Undefined
  /\ Val(last).req.name = UnknownName
  /\ Val(last).admitted
  /\ Val(last).outcome = "errorResult"
  /\ Val(last).req.ip \in DOMAIN requestCounts
  /\ requestCounts[Val(last).req.ip].count = 2

\* An endpoint that is missing or holds nothing but spaces.
NoPlace(o) == o = Undefined \/ \A i \in 1..Len(Val(o)) : Val(o)[i] = " "

\* C5: an admitted tool call never ends in a thrown Error: a handler's failure
\* comes back as an error result carrying its message, and the step that
\* returns it disturbs no other invocation and no window, so later calls are
\* served as before.
C5_HandlerFailuresReturned ==
  /\ [](last # Undefined /\ IsCall(Val(last)) /\ Val(last).admitted =>
          /\ Val(last).outcome \in {"result", "errorResult"}
          /\ Val(last).outcome = "errorResult" <=> Val(last).error # "")
  /\ [][ (last' # last /\ last' # Undefined /\ Val(last').outcome = "errorResult") =>
           /\ BagCardinality(inflight') >= BagCardinality(inflight) - 1
           /\ \A inv \in BagToSet(inflight') : CopiesIn(inv, inflight') <= CopiesIn(inv, inflight)
           /\ Val(last').calls = 0 => inflight' = inflight
           /\ Val(last').calls > 0 => requestCounts' = requestCounts
       ]_vars

\* A provider failure came back as an error result while another invocation
\* of the same caller is still awaiting its own reply.
C5_Witness ==
  /\ last # Undefined
  /\ Val(last).admitted
  /\ Val(last).outcome = "errorResult"
  /\ Val(last).calls = 1
  /\ Val(last).error = "Locations not found"
  /\ \E inv \in BagToSet(inflight) : inv.req.ip = Val(last).req.ip

\* C7: an admitted calculate_route whose origin or destination is missing or
\* blank returns the required-endpoints error with no provider query issued,
\* and no calculate_route with such an endpoint is ever awaiting the provider.
C7_BlankEndpointRejected ==
  /\ (last # Undefined /\ Val(last).admitted /\ Val(last).req.name = "calculate_route"
        /\ (NoPlace(Val(last).req.origin) \/ NoPlace(Val(last).req.destination))) =>
       /\ Val(last).outcome = "errorResult"
       /\ Val(last).error = "Origin and destination are required"
       /\ Val(last).calls = 0
  /\ \A inv \in BagToSet(inflight) :
       inv.req.name = "calculate_route" =>
         ~NoPlace(inv.req.origin) /\ ~NoPlace(inv.req.destination)

\* The destination was a single space.
C7_Witness ==
  /\ last # Undefined
  /\ Val(last).req.name = "calculate_route"
  /\ Val(last).req.origin = ValidEndpoint
  /\ Val(last).req.destination = Some(<<" ">>)
  /\ Val(last).outcome = "errorResult"

\* C8: compare_routes, get_live_traffic and estimate_costs with a missing or
\* blank origin or destination are rejected before any provider query: none is
\* ever awaiting the provider, and each ends in an error result with no query.
C8_EndpointsRequired ==
  /\ \A inv \in BagToSet(inflight) :
       inv.req.name \in {"compare_routes", "get_live_traffic", "estimate_costs"} =>
         ~NoPlace(inv.req.origin) /\ ~NoPlace(inv.req.destination)
  /\ (last # Undefined /\ Val(last).admitted
        /\ Val(last).req.name \in {"compare_routes", "get_live_traffic", "estimate_costs"}
        /\ (NoPlace(Val(last).req.origin) \/ NoPlace(Val(last).req.destination))) =>
       Val(last).outcome = "errorResult" /\ Val(last).calls = 0

InRange(o, lo, hi) == o = Undefined \/ (lo <= Val(o) /\ Val(o) <= hi)

\* C9: an estimate is computed only from vehicle options that are absent or in
\* range: it uses 8.0 L/100km and 1.50 per liter for the absent ones and the
\* supplied value otherwise.
C9_VehicleOptionsChecked ==
  (last # Undefined /\ Val(last).req.name = "estimate_costs" /\ Val(last).outcome = "result") =>
    LET v == Val(last).req.vehicleOptions
        p == Val(last).payload
    IN
    /\ InRange(v.fuelEfficiency, MinFuelEfficiency, MaxFuelEfficiency)
    /\ InRange(v.fuelPrice, MinFuelPrice, MaxFuelPrice)
    /\ p.fuelEfficiency =
         IF v.fuelEfficiency = Undefined THEN DefaultFuelEfficiency ELSE Val(v.fuelEfficiency)
    /\ p.fuelPrice = IF v.fuelPrice = Undefined THEN DefaultFuelPrice ELSE Val(v.fuelPrice)

\* The lowest position holding the least durationInTraffic, and the least
\* distance.
FirstFastest(routes) ==
  CHOOSE i \in 1..Len(routes) :
    /\ \A j \in 1..Len(routes) : routes[i].durationInTraffic <= routes[j].durationInTraffic
    /\ \A j \in 1..(i - 1) : routes[i].durationInTraffic < routes[j].durationInTraffic

FirstShortest(routes) ==
  CHOOSE i \in 1..Len(routes) :
    /\ \A j \in 1..Len(routes) : routes[i].distance <= routes[j].distance
    /\ \A j \in 1..(i - 1) : routes[i].distance < routes[j].distance

\* C10: recommended and fastest are the first entry of least durationInTraffic
\* and shortest the first entry of least distance; a single entry is all three.
C10_FirstMinimumWins ==
  eval # Undefined =>
    LET c == Val(eval)
        n == Len(c.routes)
        f == FirstFastest(c.routes)
        s == FirstShortest(c.routes)
    IN
    /\ c.recommendation.recommended.index = f - 1
    /\ c.recommendation.recommended.route = c.routes[f]
    /\ c.recommendation.recommended.label = DefaultLabels(n)[f]
    /\ c.fastestRoute.label = DefaultLabels(n)[f]
    /\ c.fastestRoute.seconds = c.routes[f].durationInTraffic
    /\ c.shortestRoute.label = DefaultLabels(n)[s]
    /\ c.shortestRoute.meters = c.routes[s].distance
    /\ n = 1 => /\ c.recommendation.recommended.index = 0
                /\ c.fastestRoute.label = "Default Route"
                /\ c.shortestRoute.label = "Default Route"

\* The default route ties with the last for the least traffic duration and
\* the middle one is slower: the default is recommended.
C10_Witness ==
  /\ eval # Undefined
  /\ Len(Val(eval).routes) = 3
  /\ Val(eval).routes[1].durationInTraffic = Val(eval).routes[3].durationInTraffic
  /\ Val(eval).routes[2].durationInTraffic > Val(eval).routes[1].durationInTraffic
  /\ Val(eval).recommendation.recommended.index = 0

\* The i-th query compare_routes issues for a request: the default one, then
\* the option sets in request order.
IssuedOptions(req, i) ==
  IF i = 1 THEN QueryOptions(TRUE, FALSE, FALSE)
  ELSE QueryOptions(FALSE, req.compareOptions[i - 1].avoidTolls,
                    req.compareOptions[i - 1].avoidHighways)

IssuedLabel(req, i) ==
  IF i = 1 THEN "Default Route"
  ELSE IF req.compareOptions[i - 1].name \in {Undefined, Some("")}
         THEN OptionLabel(i - 1) ELSE Val(req.compareOptions[i - 1].name)

\* C11: compare_routes issues the default query first and then one query per
\* option set in request order, and whatever the order its replies arrived in,
\* entry i of its result carries the label and option set of the i-th query
\* and the route that answers the i-th query.
C11_AssociatedByIndex ==
  /\ \A inv \in BagToSet(inflight) :
       inv.req.name = "compare_routes" =>
         /\ Len(inv.queries) = 1 + Len(inv.req.compareOptions)
         /\ \A i \in 1..Len(inv.queries) : inv.queries[i].options = IssuedOptions(inv.req, i)
  /\ (last # Undefined /\ Val(last).req.name = "compare_routes"
        /\ Val(last).outcome = "result") =>
       LET f == Val(last)
           c == f.payload.comparison
       IN
       /\ Len(c) = 1 + Len(f.req.compareOptions)
       /\ \A i \in 1..Len(c) :
            /\ c[i].id = i - 1
            /\ c[i].label = IssuedLabel(f.req, i)
            /\ IF i = 1 THEN c[i].options = DefaultMarker
                         ELSE c[i].options = Some(f.req.compareOptions[i - 1])
            /\ c[i].summary = Via(IssuedOptions(f.req, i))

\* A comparison under two different option sets came back after the replies
\* arrived last query first.
C11_Witness ==
  /\ last # Undefined
  /\ Val(last).req.name = "compare_routes"
  /\ Val(last).outcome = "result"
  /\ Val(last).arrived = << 3, 2, 1 >>
  /\ Val(last).payload.comparison[2].summary # Val(last).payload.comparison[3].summary
  /\ Val(last).payload.comparison[2].label = "Option 1"
  /\ Val(last).payload.comparison[3].label = "Scenic"

\* C12: a compare_routes call returns a comparison only once each of its 1+N
\* queries has been answered with a route; a failed query ends the call in one
\* error result that carries no comparison, all 1+N queries having been
\* issued; and the step that returns either ends the invocation, so a call
\* returns once.
C12_AllOrOneError ==
  /\ [](last # Undefined /\ Val(last).req.name = "compare_routes" /\ Val(last).admitted =>
          LET f == Val(last)
              n == 1 + Len(f.req.compareOptions)
          IN
          /\ f.calls = n
          /\ f.outcome \in {"result", "errorResult"}
          /\ f.outcome = "result" =>
               /\ Len(f.arrived) = n
               /\ \A i \in 1..n : \E k \in 1..n : f.arrived[k] = i
               /\ Len(f.payload.comparison) = n
          /\ f.outcome = "errorResult" =>
               /\ f.error # ""
               /\ f.payload.comparison = << >>)
  /\ [][ (last' # last /\ last' # Undefined /\ Val(last').req.name = "compare_routes"
           /\ Val(last').admitted) =>
           /\ inflight' = EmptyBag
           /\ \E inv \in BagToSet(inflight) :
                /\ inflight = SetToBag({inv})
                /\ inv.req = Val(last').req
       ]_vars

\* One query of three failed after a sibling had been answered and while the
\* third was still awaited: the call returned the error.
C12_Witness ==
  /\ last # Undefined
  /\ Val(last).req.name = "compare_routes"
  /\ Val(last).outcome = "errorResult"
  /\ Val(last).calls = 3
  /\ Len(Val(last).arrived) = 2
  /\ inflight = EmptyBag

\* n / 10^6 rounded to the nearest integer, halves away from zero, for a
\* natural number n of any size.
HalfAwayMillionth(n) ==
  BigToInt(BigDivSmall(BigDivSmall(BigAdd(n, Big(500000)), 1000).q, 1000).q)

\* C13: an estimate reports, in cents, fuel = distanceKm/100 * efficiency *
\* price, tolls = distanceKm * 0.05 and total = fuel + tolls, each rounded to
\* the nearest cent with halves away from zero; 100 km at 8.0 L/100km and
\* 1.50 per liter gives 12.00, 5.00 and 17.00. (With the distance in meters,
\* the efficiency in tenths and the price in cents, fuel in cents is
\* distance * efficiency * price / 10^6 and tolls distance * 5000 / 10^6.)
C13_CostsRounded ==
  (last # Undefined /\ Val(last).req.name = "estimate_costs" /\ Val(last).outcome = "result") =>
    LET p == Val(last).payload
        fuel == BigMul(Big(p.distance), BigMul(Big(p.fuelEfficiency), Big(p.fuelPrice)))
        tolls == BigMul(Big(p.distance), Big(5000))
    IN
    /\ p.fuel = HalfAwayMillionth(fuel)
    /\ p.tolls = HalfAwayMillionth(tolls)
    /\ p.total = HalfAwayMillionth(BigAdd(fuel, tolls))
    /\ (p.distance = 100000 /\ p.fuelEfficiency = 80 /\ p.fuelPrice = 150) =>
         (p.fuel = 1200 /\ p.tolls = 500 /\ p.total = 1700)

\* A traffic report returned by get_live_traffic.
IsTrafficReport(l) ==
  l # Undefined /\ Val(l).req.name = "get_live_traffic" /\ Val(l).outcome = "result"

\* C14: for a route of duration > 0 and ratio = (durationInTraffic - duration)
\* / duration, the reported condition is light when ratio < 0.1, moderate when
\* 0.1 <= ratio < 0.3, heavy when 0.3 <= ratio < 0.5 and severe otherwise;
\* 3600 s taking 3960 s in traffic is moderate. (ratio < k/10 is written
\* 10 * delay < k * duration.)
C14_TrafficCondition ==
  (IsTrafficReport(last) /\ Val(last).payload.duration > 0) =>
    LET p == Val(last).payload
        delay == p.durationInTraffic - p.duration
    IN
    /\ p.trafficCondition =
         (IF 10 * delay < p.duration THEN "light"
          ELSE IF 10 * delay < 3 * p.duration THEN "moderate"
          ELSE IF 10 * delay < 5 * p.duration THEN "heavy"
          ELSE "severe")
    /\ (p.duration = 3600 /\ p.durationInTraffic = 3960) => p.trafficCondition = "moderate"

\* The report for 3600 s taking 3960 s in traffic.
C14_Witness ==
  /\ IsTrafficReport(last)
  /\ Val(last).payload.duration = 3600
  /\ Val(last).payload.durationInTraffic = 3960
  /\ Val(last).payload.trafficCondition = "moderate"

\* C15: get_live_traffic never returns a traffic condition for a route whose
\* duration is zero: such a call ends in an error result.
C15_ZeroDurationRejected ==
  IsTrafficReport(last) => Val(last).payload.duration # 0

\* C16: a response that succeeds with an empty route list fails like a
\* ZERO_RESULTS status does, with the same message, and not with the message
\* of the generic branch.
C16_EmptyIsNoResults ==
  (eval # Undefined /\ Val(eval).reply.resolved /\ Len(Val(eval).reply.routes) = 0) =>
    /\ ~Val(eval).result.ok
    /\ Val(eval).result.error =
         calculateRoute(Reply(FALSE, << >>, "ZERO_RESULTS", Undefined)).error
    /\ Val(eval).result.error #
         calculateRoute(Reply(FALSE, << >>, "UNKNOWN_ERROR", Undefined)).error

\* The decimal digits of a natural number.
Digit(d) == << "0", "1", "2", "3", "4", "5", "6", "7", "8", "9" >>[d + 1]

RECURSIVE Decimal(_)
Decimal(n) == IF n < 10 THEN Digit(n) ELSE Decimal(n \div 10) \o Digit(n % 10)

\* C17: s seconds are formatted as "0m" when s <= 0, as "Mm" with
\* M = floor(s/60) when 0 < s < 3600, and as "Nh Mm" with N = floor(s/3600)
\* and M = floor((s mod 3600)/60) when s >= 3600.
C17_DurationText ==
  eval # Undefined =>
    LET s == Val(eval).seconds
        text == Val(eval).text
    IN
    /\ s <= 0 => text = "0m"
    /\ (0 < s /\ s < 3600) => text = Decimal(s \div 60) \o "m"
    /\ s >= 3600 => text = Decimal(s \div 3600) \o "h " \o Decimal((s % 3600) \div 60) \o "m"

\* A second short of two hours was formatted.
C17_Witness ==
  /\ eval # Undefined
  /\ Val(eval).seconds = 7199
  /\ Val(eval).text = "1h 59m"

\* The step is an admit of ip: every admit, and no other step, adds to the
\* elapsed-time count of its identity.
Admits(ip) == hist'[ip] # hist[ip]

\* C18: an admit made while the identity's window is younger than WINDOW
\* leaves the window where it is and its count one higher, whether it returns
\* true or false; it returns false once the count has passed RATE_LIMIT, so
\* after a denial every further admit in that window is denied too.
C18_DenialNotRolledBack ==
  [][ \A ip \in IPs :
        (Admits(ip) /\ ip \in DOMAIN requestCounts
           /\ now - requestCounts[ip].window < WINDOW) =>
          /\ requestCounts'[ip].window = requestCounts[ip].window
          /\ requestCounts'[ip].count = requestCounts[ip].count + 1
          /\ hist'[ip].ok <=> requestCounts'[ip].count <= RATE_LIMIT
          /\ requestCounts[ip].count > RATE_LIMIT => ~hist'[ip].ok
          /\ ~hist[ip].ok => ~hist'[ip].ok
    ]_vars

\* An identity was denied twice in one window, its count two past the limit.
C18_Witness ==
  \E ip \in DOMAIN requestCounts :
    /\ requestCounts[ip].count = RATE_LIMIT + 2
    /\ hist[ip].n = RATE_LIMIT + 2
    /\ ~hist[ip].ok

\* C19: an admit that finds a window of age >= WINDOW, the age WINDOW itself
\* included, resets it to count 1 starting now and returns true; one that
\* finds a younger window increments it.
C19_ResetAtWindowAge ==
  [][ \A ip \in IPs :
        (Admits(ip) /\ ip \in DOMAIN requestCounts) =>
          IF now - requestCounts[ip].window >= WINDOW
            THEN /\ requestCounts'[ip] = [count |-> 1, window |-> now]
                 /\ hist'[ip].ok
            ELSE requestCounts'[ip] = [count |-> requestCounts[ip].count + 1,
                                       window |-> requestCounts[ip].window]
    ]_vars

\* C20: each admit returns what it would have returned had no sweep ever run;
\* a sweep leaves every window it keeps as it was, keeps every window younger
\* than WINDOW, and deletes only windows the next admit would have reset just
\* as it now creates them.
C20_SweepInvisible ==
  /\ [](\A ip \in IPs :
          hist[ip].n > 0 =>
            /\ ip \in DOMAIN unswept
            /\ hist[ip].ok <=> WithinLimit(unswept[ip])
            /\ ip \in DOMAIN requestCounts => requestCounts[ip] = unswept[ip])
  /\ [][ (requestCounts' # requestCounts /\ hist' = hist) =>
           \A ip \in DOMAIN requestCounts :
             /\ ip \in DOMAIN requestCounts' => requestCounts'[ip] = requestCounts[ip]
             /\ now - requestCounts[ip].window < WINDOW => ip \in DOMAIN requestCounts'
             /\ ip \notin DOMAIN requestCounts' =>
                  Bump(requestCounts[ip], now) = Bump(Entry(requestCounts', ip, now), now)
       ]_vars

\* A sweep has deleted the expired window of one identity and kept the
\* window, still young, in which another has been denied.
C20_Witness ==
  \E a \in IPs, b \in IPs :
    /\ a \in DOMAIN unswept
    /\ a \notin DOMAIN requestCounts
    /\ b \in DOMAIN requestCounts
    /\ now - requestCounts[b].window < WINDOW
    /\ ~hist[b].ok


\* C21: every stored window has a count of at least one, and its count is the
\* number of admits its identity made at or after its windowStart, the admit
\* that started it included: no earlier admit is counted.
C21_CountSinceWindowStart ==
  \A ip \in DOMAIN requestCounts :
    /\ requestCounts[ip].count >= 1
    /\ requestCounts[ip].count = since[ip].n

\* An identity past its limit in a window that an admit started after earlier
\* windows of the same identity had run out.
C21_Witness ==
  \E ip \in DOMAIN requestCounts :
    /\ requestCounts[ip].window > WINDOW
    /\ requestCounts[ip].count > RATE_LIMIT
    /\ since[ip].here < requestCounts[ip].count
    /\ unswept[ip] = requestCounts[ip]

\* C22: the failure a rejected provider call ends in is determined by the
\* response's status alone: the same failure with an error_message in the
\* response as without one.
C22_FailureByStatusAlone ==
  (eval # Undefined /\ "reply" \in DOMAIN Val(eval) /\ ~Val(eval).reply.resolved) =>
    /\ ~Val(eval).result.ok
    /\ Val(eval).result.error =
         calculateRoute(Reply(FALSE, << >>, Val(eval).reply.status, Undefined)).error

\* C23: the route the adapter returns has the traffic-aware duration of the
\* provider's leg whenever the leg has one, whatever its value, zero included,
\* and the leg's plain duration exactly when the leg has none.
C23_TrafficDurationKept ==
  (eval # Undefined /\ "reply" \in DOMAIN Val(eval) /\ Val(eval).result.ok) =>
    LET leg == Val(eval).reply.routes[1]
        route == Val(Val(eval).result.value)
    IN IF leg.duration_in_traffic = Undefined
         THEN route.durationInTraffic = route.duration
         ELSE route.durationInTraffic = Val(leg.duration_in_traffic)

\* The elements of a list trimmed, the empty ones left out, in their order.
RECURSIVE KeptInOrder(_)
KeptInOrder(w) ==
  IF w = << >> THEN << >>
  ELSE (IF Trim(Head(w)) = << >> THEN << >> ELSE << Trim(Head(w)) >>)
       \o KeptInOrder(Tail(w))

\* C24: the waypoints a calculate_route query carries to the provider are the
\* request's, each trimmed, the empty ones removed, in the original order; a
\* request with more than MaxWaypoints waypoints issues no query and ends in
\* an error result.
C24_WaypointsTrimmedAndCapped ==
  /\ \A inv \in BagToSet(inflight) :
       (inv.req.name = "calculate_route" /\ inv.req.options.waypoints = Undefined) =>
         /\ inv.queries[1].waypoints = KeptInOrder(inv.req.waypoints)
         /\ Len(inv.req.waypoints) <= MaxWaypoints
  /\ (/\ last # Undefined
      /\ Val(last).req.name = "calculate_route"
      /\ Len(Val(last).req.waypoints) > MaxWaypoints) =>
        /\ Val(last).outcome = "errorResult"
        /\ Val(last).calls = 0

\* C27: every query calculate_route and compare_routes issue has the
\* request's own origin and destination (trimmed by calculate_route) and its
\* own waypoints, whatever keys the option sets carry.
C27_EndpointsNotReplaced ==
  \A inv \in BagToSet(inflight) :
    \A i \in 1..Len(inv.queries) :
      CASE inv.req.name = "calculate_route" ->
             /\ inv.queries[i].origin = Some(Trim(Val(inv.req.origin)))
             /\ inv.queries[i].destination = Some(Trim(Val(inv.req.destination)))
             /\ inv.queries[i].waypoints = KeptInOrder(inv.req.waypoints)
        [] inv.req.name = "compare_routes" ->
             /\ inv.queries[i].origin = inv.req.origin
             /\ inv.queries[i].destination = inv.req.destination
             /\ inv.queries[i].waypoints = inv.req.waypoints
        [] OTHER -> TRUE

\* C25: while a provider call is pending, whatever its age, every request of
\* either identity can still be received and charged (the model's caps on
\* denials and on suspended invocations aside), and every other suspended
\* invocation can still be resumed by its own reply.
C25_HungCallBlocksOnlyItself ==
  \A inv \in BagToSet(inflight) :
    /\ \A req \in HungRequests :
         (/\ CanCharge(req.ip)
          /\ req.method = "tools/call" => BagCardinality(inflight) < MaxInflight)
           => ENABLED Receive(req)
    /\ \A other \in BagToSet(inflight (-) SetToBag({inv})) :
         \A i \in 1..Len(other.fetched) :
           other.fetched[i] = Undefined =>
             \A reply \in Directions(other.queries[i]) :
               ENABLED ProviderReply(other, i, reply)

\* An identity's request still awaits the provider, nothing having arrived,
\* while a later request of the same identity was denied and, after that,
\* another of its invocations returned its route.
C25_Witness ==
  \E inv \in BagToSet(inflight) :
    /\ last # Undefined
    /\ inv.arrived = << >>
    /\ inv.admitted
    /\ Val(last).req.ip = inv.req.ip
    /\ Val(last).admitted
    /\ Val(last).outcome = "result"
    /\ Val(last).calls = 1
    /\ requestCounts[inv.req.ip].count > RATE_LIMIT
    /\ ~hist[inv.req.ip].ok
    /\ \E ip \in DOMAIN requestCounts : ip # inv.req.ip
\* The request a step takes up, if it takes one up: the one it suspends, or
\* the one it finishes before any provider call.
TakenUp(req) ==
  \/ \E inv \in BagToSet(inflight') :
       /\ inv.req = req
       /\ inv.arrived = << >>
       /\ inflight' = inflight (+) SetToBag({inv})
  \/ /\ last' # Undefined
     /\ Val(last').req = req
     /\ Val(last').calls = 0
     /\ inflight' = inflight

\* C26: a step charges at most one identity, by exactly one admit, and it
\* does so exactly when it takes up a request, tools/list and tools/call
\* alike; a tools/list is denied once the count has passed RATE_LIMIT like any
\* call; and the steps that resume an invocation, the 1 + N fetches of
\* compare_routes included, charge nothing.
C26_OneAdmitPerRequest ==
  [][ IF requestCounts' = requestCounts
        THEN /\ \A req \in HungRequests : ~TakenUp(req)
             /\ BagCardinality(inflight') <= BagCardinality(inflight)
        ELSE \E req \in HungRequests :
               /\ TakenUp(req)
               /\ requestCounts' =
                    MapSet(requestCounts, req.ip,
                           IF req.ip \in DOMAIN requestCounts
                             THEN [requestCounts[req.ip] EXCEPT !.count = @ + 1]
                             ELSE [count |-> 1, window |-> now])
               /\ IF inflight' = inflight
                    THEN Val(last').admitted <=>
                           requestCounts'[req.ip].count <= RATE_LIMIT
                    ELSE requestCounts'[req.ip].count <= RATE_LIMIT
    ]_vars

\* A comparison with two fetches, one of them answered, has cost its identity
\* one admit: with it and a tools/list the limit is used up, and the next
\* tools/list is denied.
C26_Witness ==
  \E inv \in BagToSet(inflight) :
    /\ inv.req.name = "compare_routes"
    /\ Len(inv.queries) = 2
    /\ Len(inv.arrived) = 1
    /\ requestCounts[inv.req.ip].count = RATE_LIMIT + 1
    /\ BagCardinality(inflight) = 1
    /\ last # Undefined
    /\ Val(last).req.method = "tools/list"
    /\ Val(last).req.ip = inv.req.ip
    /\ ~Val(last).admitted

\* C28: an admit of one identity leaves every other identity's stored window
\* as it was, present or absent, count and windowStart alike; and an identity
\* is denied only when its own admits since its own windowStart have passed
\* RATE_LIMIT.
C28_AdmitTouchesOneIdentity ==
  [][ \A ip \in IPs :
        Admits(ip) =>
          /\ \A other \in IPs \ {ip} :
               /\ other \in DOMAIN requestCounts' <=> other \in DOMAIN requestCounts
               /\ other \in DOMAIN requestCounts =>
                    requestCounts'[other] = requestCounts[other]
          /\ ~hist'[ip].ok => since'[ip].n > RATE_LIMIT
    ]_vars

\* One identity has used up its quota and was denied; the other is admitted
\* at a later instant of the same window with a count of one.
C28_Witness ==
  \E a \in DOMAIN requestCounts, b \in DOMAIN requestCounts :
    /\ a # b
    /\ requestCounts[a].count > RATE_LIMIT
    /\ ~hist[a].ok
    /\ since[a].here = 0
    /\ now - requestCounts[a].window <= WINDOW
    /\ requestCounts[b] = [count |-> 1, window |-> now]
    /\ since[b].here = 1
    /\ hist[b].ok

\* C29: a compare_routes result has one entry per query, 1 + N of them, with
\* ids 0..N in order; entry 0 is labelled 'Default Route' and has 'default'
\* for options; and recommendation.timeSaved is entry 0's durationInTraffic
\* less the recommended entry's, never negative.
C29_ComparisonShape ==
  (last # Undefined /\ Val(last).req.name = "compare_routes"
     /\ Val(last).outcome = "result") =>
    LET c == Val(last).payload.comparison
        r == Val(Val(last).payload.recommendation)
    IN /\ Len(c) = 1 + Len(Val(last).req.compareOptions)
       /\ \A i \in 1..Len(c) : c[i].id = i - 1
       /\ c[1].label = "Default Route"
       /\ c[1].options = DefaultMarker
       /\ \A i \in 2..Len(c) : c[i].options # DefaultMarker
       /\ r.recommended.index \in 0..(Len(c) - 1)
       /\ r.recommended.route.durationInTraffic =
            c[r.recommended.index + 1].durationInTraffic
       /\ r.timeSaved =
            c[1].durationInTraffic - c[r.recommended.index + 1].durationInTraffic
       /\ r.timeSaved >= 0

\* A comparison of the default route with MaxOptions option sets recommends
\* one of the option sets' routes and saves time over the default.
C29_Witness ==
  /\ last # Undefined
  /\ Val(last).req.name = "compare_routes"
  /\ Val(last).outcome = "result"
  /\ Len(Val(last).payload.comparison) = 1 + MaxOptions
  /\ Val(Val(last).payload.recommendation).recommended.index > 0
  /\ Val(Val(last).payload.recommendation).timeSaved > 0

====
